---- MODULE Spec2Model ----
(***************************************************************************)
(* Task manager (Django + Django REST framework): the Task model of        *)
(* tasks/models.py, its validation in tasks/serializers.py and             *)
(* tasks/forms.py, and the request handlers of tasks/views.py.             *)
(*                                                                         *)
(* State: the task table, the next primary key, the wall clock, and the    *)
(* request/response pair of the request handled last (until its response   *)
(* is delivered).  One action per request handler; each handler runs to    *)
(* completion in one step, its trailing Task.save() included.  SpecLWW     *)
(* splits the handlers that load a task and save it later at these two     *)
(* database accesses; loaded holds the requests it has started, each with  *)
(* the Task instance it works on, and is empty everywhere else.            *)
(*                                                                         *)
(* Time is a linear count of ticks.  A day has TicksPerDay ticks; the      *)
(* tick EndOfDay stands for 23:59:59 and the last tick of a day for the    *)
(* sub-second instants after 23:59:59 and before midnight.  A handler      *)
(* reads the clock at one instant; the clock advances between requests.    *)
(* created_at and updated_at are written by the ORM and read by no         *)
(* handler; they are not part of the modelled row.  SpecShown alone reads   *)
(* the clock in whole seconds, for the hours and minutes of                *)
(* get_time_remaining.                                                     *)
(***************************************************************************)
EXTENDS Integers, FiniteSets, Sequences, TLC

VARIABLES tasks, nextId, now, rq, loaded

vars == <<tasks, nextId, now, rq, loaded>>

(* ------------------------------ bounds -------------------------------- *)

\* Days 0..MaxDay are covered by the clock.
MaxDay == 1
\* Clock ticks per day.
TicksPerDay == 3
\* Primary keys 1..MaxTasks can be allocated.
MaxTasks == 2
MaxTime == (MaxDay + 1) * TicksPerDay - 1

(* --------------------------- program values --------------------------- *)

\* Python None / SQL NULL in a date, time or timestamp column.
NULL == -1
\* A numeric field that the request does not carry.
ABSENT == -2
\* A text field that the request does not carry.
Omitted == "<omitted>"
\* None in the description column.
NoText == "<none>"

PRIORITY_LOW == 1
PRIORITY_MEDIUM == 2
PRIORITY_HIGH == 3
PRIORITY_CRITICAL == 4

STATUS_PENDING == "pending"
STATUS_COMPLETED == "completed"
STATUS_OVERDUE == "overdue"

\* time(23, 59, 59): the default time of day of a deadline.
EndOfDay == TicksPerDay - 2

\* date.today() and datetime.now().time() of the clock value t.
Day(t) == t \div TicksPerDay
Tod(t) == t % TicksPerDay

(* ------------------------------ inputs -------------------------------- *)

Users == {"alice", "bob"}
TaskIds == 1..MaxTasks
Dates == 0..MaxDay
\* Times of day a client can name (whole seconds).
Times == 0..EndOfDay

\* title, description and priority as a request carries them together: a
\* first version, a second version, and one with a blank title.
Contents ==
    {[title |-> "a", description |-> NoText, priority |-> PRIORITY_MEDIUM],
     [title |-> "b", description |-> "d", priority |-> PRIORITY_CRITICAL],
     [title |-> "", description |-> NoText, priority |-> PRIORITY_MEDIUM]}

\* An API body may leave fields out: all three, all but the title, only the title.
ApiContents ==
    Contents \cup
    {[title |-> Omitted, description |-> Omitted, priority |-> ABSENT],
     [title |-> "b", description |-> Omitted, priority |-> ABSENT],
     [title |-> Omitted, description |-> "d", priority |-> PRIORITY_CRITICAL]}

\* due_date and due_time as a request carries them: no deadline, or a date
\* with or without a time of day.
Dues ==
    {[due_date |-> NULL, due_time |-> NULL]} \cup
    [due_date : Dates, due_time : {NULL} \cup Times]

\* An API body may leave both out, or carry the date alone.
ApiDues ==
    Dues \cup
    {[due_date |-> ABSENT, due_time |-> ABSENT]} \cup
    [due_date : Dates, due_time : {ABSENT}]

Payload(c, d) ==
    [title |-> c.title, description |-> c.description, priority |-> c.priority,
     due_date |-> d.due_date, due_time |-> d.due_time]

\* The five editable fields as a web form posts them (every field present).
FormData == {Payload(c, d) : c \in Contents, d \in Dues}

\* The editable fields as an API body carries them.
ApiData == {Payload(c, d) : c \in ApiContents, d \in ApiDues}

NoData ==
    [title |-> Omitted, description |-> Omitted, priority |-> ABSENT,
     due_date |-> ABSENT, due_time |-> ABSENT]

\* datetime.combine(due_date, due_time) on the tick scale
combine(d, tm) == d * TicksPerDay + tm

\* The deadline of a row with a due date: its due_time, or 23:59:59
Deadline(due_date, due_time) ==
    combine(due_date, IF due_time # NULL THEN due_time ELSE EndOfDay)

(* ------------------------------ Task model ---------------------------- *)

\* Task.is_completed
is_completed(t) == t.status = STATUS_COMPLETED

\* is_overdue comparing dates only: a task due today is never overdue
is_overdue_date_only(t, clock) ==
    IF t.due_date = NULL \/ is_completed(t) THEN FALSE
    ELSE t.due_date < Day(clock)

\* The comparisons of is_overdue with >= for the time of day: a task is
\* overdue from its deadline on, not after it
overdue_on_from_deadline(t, today, time_now, end_of_day) ==
    IF t.due_date = NULL \/ is_completed(t) THEN FALSE
    ELSE IF t.due_date < today THEN TRUE
    ELSE IF t.due_date = today
         THEN time_now >= (IF t.due_time # NULL THEN t.due_time ELSE end_of_day)
    ELSE FALSE

\* The body of Task.is_overdue for today = date.today(), time_now =
\* datetime.now().time() and end_of_day = time(23, 59, 59)
overdue_on(t, today, time_now, end_of_day) ==
    IF t.due_date = NULL \/ is_completed(t) THEN FALSE
    ELSE IF t.due_date < today THEN TRUE
    ELSE IF t.due_date = today
         THEN time_now > (IF t.due_time # NULL THEN t.due_time ELSE end_of_day)
    ELSE FALSE

\* Task.is_overdue, with the clock value it reads
is_overdue(t, clock) == overdue_on(t, Day(clock), Tod(clock), EndOfDay)

\* save that does not look at completed_at
save_ignores_completed_at(t, clock) ==
    [t EXCEPT !.status =
        IF t.due_date # NULL /\ is_overdue(t, clock) THEN STATUS_OVERDUE
        ELSE STATUS_PENDING]

\* Task.save: the row that is written.  is_overdue reads the instance's status
\* as it was before this assignment.
save(t, clock) ==
    [t EXCEPT !.status =
        IF t.completed_at # NULL THEN STATUS_COMPLETED
        ELSE IF t.due_date # NULL /\ is_overdue(t, clock) THEN STATUS_OVERDUE
        ELSE STATUS_PENDING]

\* mark_as_completed without its guard: every call stamps the current time
mark_as_completed_restamps(t, clock) ==
    save([t EXCEPT !.completed_at = clock], clock)

\* Task.mark_as_completed
mark_as_completed(t, clock) ==
    IF t.completed_at = NULL
    THEN save([t EXCEPT !.completed_at = clock], clock)
    ELSE t

\* mark_as_incomplete without its save(): the cleared completed_at is
\* never written and the row stays as it was
mark_as_incomplete_without_save(t, clock) == t

\* Task.mark_as_incomplete
mark_as_incomplete(t, clock) ==
    save([t EXCEPT !.completed_at = NULL], clock)

(* ------------------------------ validation ---------------------------- *)

\* validate_due_date comparing with <=: today is rejected too
validate_due_date_rejects_today(value, clock) ==
    ~(value # NULL /\ value <= Day(clock))

\* TaskSerializer.validate_due_date: TRUE when the value passes
validate_due_date(value, clock) ==
    ~(value # NULL /\ value < Day(clock))

\* TaskForm.clean_due_date: TRUE when the value passes
clean_due_date(due_date, clock) ==
    ~(due_date # NULL /\ due_date < Day(clock))

\* serializer.is_valid() of a TaskSerializer: title is required unless the
\* update is partial and may not be blank; a due_date in the body goes
\* through validate_due_date
serializer_is_valid(data, partial, clock) ==
    /\ data.title = Omitted => partial
    /\ data.title # ""
    /\ data.due_date # ABSENT => validate_due_date(data.due_date, clock)

\* form.is_valid() of a TaskForm: title is required; clean_due_date
form_is_valid(data, clock) ==
    /\ data.title # ""
    /\ clean_due_date(data.due_date, clock)

\* The instance a create builds from the validated data and the model's
\* field defaults, before it is saved
new_task(u, data) ==
    [user |-> u,
     title |-> data.title,
     description |-> IF data.description = Omitted THEN NoText ELSE data.description,
     priority |-> IF data.priority = ABSENT THEN PRIORITY_MEDIUM ELSE data.priority,
     status |-> STATUS_PENDING,
     completed_at |-> NULL,
     due_date |-> IF data.due_date = ABSENT THEN NULL ELSE data.due_date,
     due_time |-> IF data.due_time = ABSENT THEN NULL ELSE data.due_time]

\* setattr(instance, attr, value) for every validated field
set_fields(t, data) ==
    [t EXCEPT
        !.title = IF data.title = Omitted THEN @ ELSE data.title,
        !.description = IF data.description = Omitted THEN @ ELSE data.description,
        !.priority = IF data.priority = ABSENT THEN @ ELSE data.priority,
        !.due_date = IF data.due_date = ABSENT THEN @ ELSE data.due_date,
        !.due_time = IF data.due_time = ABSENT THEN @ ELSE data.due_time]

\* TaskSerializer.update: TRUE when the instance may be edited
serializer_update_allowed(instance) == ~is_completed(instance)

(* ------------------------------ queries ------------------------------- *)

\* A query that does not filter on the owner
get_queryset_of_everyone(u) == DOMAIN tasks

\* Task.objects.filter(user=u): the primary keys of u's rows
get_queryset(u) == {i \in DOMAIN tasks : tasks[i].user = u}

\* .filter(status=st) on u's rows
with_status(u, st) == {i \in get_queryset(u) : tasks[i].status = st}

\* .filter(due_date=date.today()) on u's rows
due_today(u, clock) == {i \in get_queryset(u) : tasks[i].due_date = Day(clock)}

\* timedelta(days=7) of TaskViewSet.upcoming
UPCOMING_DAYS == 7

\* .filter(status='pending', due_date__range=[today, today + 7 days]) on u's rows
upcoming(u, clock) ==
    {i \in with_status(u, STATUS_PENDING) :
        /\ tasks[i].due_date # NULL
        /\ tasks[i].due_date >= Day(clock)
        /\ tasks[i].due_date <= Day(clock) + UPCOMING_DAYS}

\* The counts with every task that is not completed counted as pending
dashboard_stats_open_as_pending(u) ==
    [total_tasks |-> Cardinality(get_queryset(u)),
     completed_tasks |-> Cardinality(with_status(u, STATUS_COMPLETED)),
     pending_tasks |-> Cardinality(get_queryset(u) \ with_status(u, STATUS_COMPLETED)),
     overdue_tasks |-> Cardinality(with_status(u, STATUS_OVERDUE))]

\* The four counts of DashboardView.get, dashboard and get_dashboard_stats
dashboard_stats(u) ==
    [total_tasks |-> Cardinality(get_queryset(u)),
     completed_tasks |-> Cardinality(with_status(u, STATUS_COMPLETED)),
     pending_tasks |-> Cardinality(with_status(u, STATUS_PENDING)),
     overdue_tasks |-> Cardinality(with_status(u, STATUS_OVERDUE))]

\* The filter of task_list and get_task_updates
Filters == {"", "overdue", "today", "completed", "pending"}

filtered(u, filter_type, clock) ==
    IF filter_type = "overdue" THEN with_status(u, STATUS_OVERDUE)
    ELSE IF filter_type = "today" THEN due_today(u, clock)
    ELSE IF filter_type = "completed" THEN with_status(u, STATUS_COMPLETED)
    ELSE IF filter_type = "pending" THEN with_status(u, STATUS_PENDING)
    ELSE get_queryset(u)

\* get_object() / get_object_or_404(Task, pk=pk, user=u): TRUE when found
found(u, pk) == pk \in get_queryset(u)

(* --------------------------- request records -------------------------- *)

\* rq: the request handled last and its response.  op names the handler, pk
\* the row the URL names, data and completed the body, code the outcome, out
\* the primary keys of the rows the response shows, stats the counts of a
\* dashboard response.
NoStats ==
    [total_tasks |-> 0, completed_tasks |-> 0, pending_tasks |-> 0, overdue_tasks |-> 0]

NoRequest ==
    [op |-> "none", user |-> "", pk |-> NULL, data |-> NoData,
     completed |-> Omitted, code |-> "", out |-> {}, stats |-> NoStats]

Response(op, u, pk, data, completed, code, out) ==
    [op |-> op, user |-> u, pk |-> pk, data |-> data,
     completed |-> completed, code |-> code, out |-> out, stats |-> NoStats]

\* The response of a handler that only reads
Shown(op, u, pk, code, out) == Response(op, u, pk, NoData, Omitted, code, out)

Idle == rq.op = "none"

Remove(pk) == [i \in DOMAIN tasks \ {pk} |-> tasks[i]]

(* ------------------------------- Init --------------------------------- *)

Init ==
    /\ tasks = << >>
    /\ nextId = 1
    /\ now = 0
    /\ rq = NoRequest
    /\ loaded = << >>

(* --------------------------- API handlers ----------------------------- *)

\* POST /api/tasks/  (CreateModelMixin.create, perform_create, TaskSerializer.create)
ApiCreate(u, data) ==
    /\ Idle
    /\ UNCHANGED loaded
    /\ nextId <= MaxTasks
    /\ IF ~serializer_is_valid(data, FALSE, now)
       THEN /\ rq' = Response("api_create", u, NULL, data, Omitted, "validation_error", {})
            /\ UNCHANGED <<tasks, nextId>>
       ELSE /\ tasks' = tasks @@ (nextId :> save(new_task(u, data), now))
            /\ nextId' = nextId + 1
            /\ rq' = Response("api_create", u, nextId, data, Omitted, "ok", {nextId})
    /\ UNCHANGED now

\* PUT / PATCH /api/tasks/{pk}/  (UpdateModelMixin.update, TaskSerializer.update)
ApiUpdate(u, pk, data, partial) ==
    /\ Idle
    /\ UNCHANGED loaded
    /\ IF ~found(u, pk)
       THEN /\ rq' = Response("api_update", u, pk, data, Omitted, "not_found", {})
            /\ UNCHANGED tasks
       ELSE IF ~serializer_is_valid(data, partial, now)
       THEN /\ rq' = Response("api_update", u, pk, data, Omitted, "validation_error", {})
            /\ UNCHANGED tasks
       ELSE IF ~serializer_update_allowed(tasks[pk])
       THEN /\ rq' = Response("api_update", u, pk, data, Omitted, "completed_error", {})
            /\ UNCHANGED tasks
       ELSE /\ tasks' = [tasks EXCEPT ![pk] = save(set_fields(@, data), now)]
            /\ rq' = Response("api_update", u, pk, data, Omitted, "ok", {pk})
    /\ UNCHANGED <<nextId, now>>

\* DELETE /api/tasks/{pk}/  (DestroyModelMixin.destroy)
ApiDestroy(u, pk) ==
    /\ Idle
    /\ UNCHANGED loaded
    /\ IF ~found(u, pk)
       THEN /\ rq' = Response("api_destroy", u, pk, NoData, Omitted, "not_found", {})
            /\ UNCHANGED tasks
       ELSE /\ tasks' = Remove(pk)
            /\ rq' = Response("api_destroy", u, pk, NoData, Omitted, "ok", {pk})
    /\ UNCHANGED <<nextId, now>>

\* PATCH /api/tasks/{pk}/complete/  (TaskViewSet.complete,
\* TaskCompletionSerializer.update).  The serializer is partial, so a body
\* without "completed" is valid and update() fails on the missing key.
ApiComplete(u, pk, completed) ==
    /\ Idle
    /\ UNCHANGED loaded
    /\ IF ~found(u, pk)
       THEN /\ rq' = Response("api_complete", u, pk, NoData, completed, "not_found", {})
            /\ UNCHANGED tasks
       ELSE IF completed = Omitted
       THEN /\ rq' = Response("api_complete", u, pk, NoData, completed, "server_error", {})
            /\ UNCHANGED tasks
       ELSE /\ tasks' = [tasks EXCEPT ![pk] =
                            IF completed = "true" THEN mark_as_completed(@, now)
                            ELSE mark_as_incomplete(@, now)]
            /\ rq' = Response("api_complete", u, pk, NoData, completed, "ok", {pk})
    /\ UNCHANGED <<nextId, now>>

\* GET /api/tasks/  (ListModelMixin.list over get_queryset)
ApiList(u) ==
    /\ Idle
    /\ UNCHANGED loaded
    /\ rq' = Shown("api_list", u, NULL, "ok", get_queryset(u))
    /\ UNCHANGED <<tasks, nextId, now>>

\* GET /api/tasks/{pk}/  (RetrieveModelMixin.retrieve)
ApiRetrieve(u, pk) ==
    /\ Idle
    /\ UNCHANGED loaded
    /\ rq' = IF found(u, pk) THEN Shown("api_retrieve", u, pk, "ok", {pk})
             ELSE Shown("api_retrieve", u, pk, "not_found", {})
    /\ UNCHANGED <<tasks, nextId, now>>

\* GET /api/tasks/overdue/  (TaskViewSet.overdue)
ApiOverdue(u) ==
    /\ Idle
    /\ UNCHANGED loaded
    /\ rq' = Shown("api_overdue", u, NULL, "ok", with_status(u, STATUS_OVERDUE))
    /\ UNCHANGED <<tasks, nextId, now>>

\* GET /api/tasks/upcoming/  (TaskViewSet.upcoming)
ApiUpcoming(u) ==
    /\ Idle
    /\ UNCHANGED loaded
    /\ rq' = Shown("api_upcoming", u, NULL, "ok", upcoming(u, now))
    /\ UNCHANGED <<tasks, nextId, now>>

\* GET /api/tasks/today/  (TaskViewSet.today)
ApiToday(u) ==
    /\ Idle
    /\ UNCHANGED loaded
    /\ rq' = Shown("api_today", u, NULL, "ok", due_today(u, now))
    /\ UNCHANGED <<tasks, nextId, now>>

\* GET /api/dashboard/  (DashboardView.get)
ApiDashboard(u) ==
    /\ Idle
    /\ UNCHANGED loaded
    /\ rq' = [Shown("api_dashboard", u, NULL, "ok", {}) EXCEPT !.stats = dashboard_stats(u)]
    /\ UNCHANGED <<tasks, nextId, now>>

(* --------------------------- web handlers ----------------------------- *)

\* POST /tasks/create/  (create_task)
WebCreate(u, data) ==
    /\ Idle
    /\ UNCHANGED loaded
    /\ nextId <= MaxTasks
    /\ IF ~form_is_valid(data, now)
       THEN /\ rq' = Response("web_create", u, NULL, data, Omitted, "validation_error", {})
            /\ UNCHANGED <<tasks, nextId>>
       ELSE /\ tasks' = tasks @@ (nextId :> save(new_task(u, data), now))
            /\ nextId' = nextId + 1
            /\ rq' = Response("web_create", u, nextId, data, Omitted, "ok", {nextId})
    /\ UNCHANGED now

\* POST /tasks/{pk}/update/  (update_task)
WebUpdate(u, pk, data) ==
    /\ Idle
    /\ UNCHANGED loaded
    /\ IF ~found(u, pk)
       THEN /\ rq' = Response("web_update", u, pk, data, Omitted, "not_found", {})
            /\ UNCHANGED tasks
       ELSE IF ~form_is_valid(data, now)
       THEN /\ rq' = Response("web_update", u, pk, data, Omitted, "validation_error", {})
            /\ UNCHANGED tasks
       ELSE /\ tasks' = [tasks EXCEPT ![pk] = save(set_fields(@, data), now)]
            /\ rq' = Response("web_update", u, pk, data, Omitted, "ok", {pk})
    /\ UNCHANGED <<nextId, now>>

\* POST /tasks/{pk}/delete/  (delete_task)
WebDelete(u, pk) ==
    /\ Idle
    /\ UNCHANGED loaded
    /\ IF ~found(u, pk)
       THEN /\ rq' = Response("web_delete", u, pk, NoData, Omitted, "not_found", {})
            /\ UNCHANGED tasks
       ELSE /\ tasks' = Remove(pk)
            /\ rq' = Response("web_delete", u, pk, NoData, Omitted, "ok", {pk})
    /\ UNCHANGED <<nextId, now>>

\* /tasks/{pk}/toggle/  (toggle_task)
WebToggle(u, pk) ==
    /\ Idle
    /\ UNCHANGED loaded
    /\ IF ~found(u, pk)
       THEN /\ rq' = Response("web_toggle", u, pk, NoData, Omitted, "not_found", {})
            /\ UNCHANGED tasks
       ELSE /\ tasks' = [tasks EXCEPT ![pk] =
                            IF @.status = STATUS_COMPLETED THEN mark_as_incomplete(@, now)
                            ELSE mark_as_completed(@, now)]
            /\ rq' = Response("web_toggle", u, pk, NoData, Omitted, "ok", {pk})
    /\ UNCHANGED <<nextId, now>>

\* GET /tasks/?filter=  (task_list; get_task_updates runs the same query)
WebTaskList(u, filter_type) ==
    /\ Idle
    /\ UNCHANGED loaded
    /\ rq' = Shown("web_task_list", u, NULL, "ok", filtered(u, filter_type, now))
    /\ UNCHANGED <<tasks, nextId, now>>

\* GET /dashboard/  (dashboard; get_dashboard_stats counts the same way)
WebDashboard(u) ==
    /\ Idle
    /\ UNCHANGED loaded
    /\ rq' = [Shown("web_dashboard", u, NULL, "ok", {}) EXCEPT !.stats = dashboard_stats(u)]
    /\ UNCHANGED <<tasks, nextId, now>>

(* ------------------------- clock and responses ------------------------ *)

\* The wall clock advances between requests.
Tick ==
    /\ Idle
    /\ UNCHANGED loaded
    /\ now < MaxTime
    /\ now' = now + 1
    /\ UNCHANGED <<tasks, nextId, rq>>

\* The response of the last request is delivered.
Reply ==
    /\ ~Idle
    /\ UNCHANGED loaded
    /\ rq' = NoRequest
    /\ UNCHANGED <<tasks, nextId, now>>

(* ------------------ Spec: the first task of one owner ----------------- *)
(* A handler that acts on a row reads no other row (found() selects the    *)
(* one row), so Spec follows the row with the first primary key through    *)
(* every handler and every payload; SpecIso below has several rows and     *)
(* owners.                                                                 *)

Owner == "alice"

First == nextId = 1

Next ==
    \/ Tick
    \/ Reply
    \/ \E data \in ApiData : First /\ ApiCreate(Owner, data)
    \/ \E data \in ApiData, partial \in BOOLEAN : ApiUpdate(Owner, 1, data, partial)
    \/ ApiDestroy(Owner, 1)
    \/ \E c \in {"true", "false", Omitted} : ApiComplete(Owner, 1, c)
    \/ ApiOverdue(Owner)
    \/ \E data \in FormData : First /\ WebCreate(Owner, data)
    \/ \E data \in FormData : WebUpdate(Owner, 1, data)
    \/ WebDelete(Owner, 1)
    \/ WebToggle(Owner, 1)

Spec == Init /\ [][Next]_vars

(* --------------- SpecIso: two owners, several tasks ------------------- *)
(* Every handler, for either user and any primary key, at a clock value    *)
(* fixed at the start.  Tasks are created with one title, with or without  *)
(* a deadline at the start of day 0, and edited to have or lose it.        *)

InitIso ==
    /\ tasks = << >>
    /\ nextId = 1
    /\ now \in 0..MaxTime
    /\ rq = NoRequest
    /\ loaded = << >>

IsoContent == [title |-> "a", description |-> NoText, priority |-> PRIORITY_MEDIUM]

IsoDues == {[due_date |-> NULL, due_time |-> NULL], [due_date |-> 0, due_time |-> 0]}

IsoData == {Payload(IsoContent, d) : d \in IsoDues}

NextIso ==
    \/ Reply
    \/ \E u \in Users, data \in IsoData : ApiCreate(u, data)
    \/ \E u \in Users, pk \in TaskIds, data \in IsoData : ApiUpdate(u, pk, data, FALSE)
    \/ \E u \in Users, pk \in TaskIds : ApiDestroy(u, pk)
    \/ \E u \in Users, pk \in TaskIds, c \in {"true", "false"} : ApiComplete(u, pk, c)
    \/ \E u \in Users : ApiList(u)
    \/ \E u \in Users, pk \in TaskIds : ApiRetrieve(u, pk)
    \/ \E u \in Users : ApiOverdue(u)
    \/ \E u \in Users : ApiUpcoming(u)
    \/ \E u \in Users : ApiToday(u)
    \/ \E u \in Users : ApiDashboard(u)
    \/ \E u \in Users, data \in IsoData : WebCreate(u, data)
    \/ \E u \in Users, pk \in TaskIds, data \in IsoData : WebUpdate(u, pk, data)
    \/ \E u \in Users, pk \in TaskIds : WebDelete(u, pk)
    \/ \E u \in Users, pk \in TaskIds : WebToggle(u, pk)
    \/ \E u \in Users, f \in Filters : WebTaskList(u, f)
    \/ \E u \in Users : WebDashboard(u)

SpecIso == InitIso /\ [][NextIso]_vars

(* ------- SpecShown: the computed fields of a serialized task ---------- *)
(* Task.get_time_remaining counts hours and minutes, so this              *)
(* specification reads the clock, and the due_time and completed_at of    *)
(* its rows, in whole seconds: the clock value is the number of seconds   *)
(* since 00:00:00 of day 0.                                               *)

SECONDS_PER_HOUR == 3600
SECONDS_PER_MINUTE == 60
\* timedelta keeps 0 <= seconds < one day
SecondsPerDay == 24 * SECONDS_PER_HOUR

\* datetime.time(hour, minute, second) in seconds since midnight
time(hour, minute, second) ==
    hour * SECONDS_PER_HOUR + minute * SECONDS_PER_MINUTE + second

\* date.today() and datetime.now().time() of a clock value in seconds
today_of(clock) == clock \div SecondsPerDay
time_of(clock) == clock % SecondsPerDay

\* None where a text is expected, and where a number of days is expected
None == "<None>"
NoDays == << >>

\* get_time_remaining leaving the whole hours inside the minutes
get_time_remaining_all_minutes(t, clock) ==
    IF t.due_date = NULL \/ is_completed(t) THEN None
    ELSE LET due_time == IF t.due_time # NULL THEN t.due_time ELSE time(23, 59, 59)
             due_datetime == t.due_date * SecondsPerDay + due_time
             time_diff == due_datetime - clock
         IN  IF time_diff < 0 THEN "OVERDUE"
             ELSE LET days == time_diff \div SecondsPerDay
                      seconds == time_diff % SecondsPerDay
                      hours == seconds \div SECONDS_PER_HOUR
                      minutes == seconds \div SECONDS_PER_MINUTE
                  IN  IF days > 0
                      THEN ToString(days) \o "d " \o ToString(hours) \o "h"
                      ELSE IF hours > 0
                      THEN ToString(hours) \o "h " \o ToString(minutes) \o "m"
                      ELSE ToString(minutes) \o "m"

\* Task.get_time_remaining, with the clock value (seconds) it reads
get_time_remaining(t, clock) ==
    IF t.due_date = NULL \/ is_completed(t) THEN None
    ELSE LET due_time == IF t.due_time # NULL THEN t.due_time ELSE time(23, 59, 59)
             due_datetime == t.due_date * SecondsPerDay + due_time
             time_diff == due_datetime - clock
         IN  IF time_diff < 0 THEN "OVERDUE"
             ELSE LET days == time_diff \div SecondsPerDay
                      seconds == time_diff % SecondsPerDay
                      hours == seconds \div SECONDS_PER_HOUR
                      minutes == (seconds % SECONDS_PER_HOUR) \div SECONDS_PER_MINUTE
                  IN  IF days > 0
                      THEN ToString(days) \o "d " \o ToString(hours) \o "h"
                      ELSE IF hours > 0
                      THEN ToString(hours) \o "h " \o ToString(minutes) \o "m"
                      ELSE ToString(minutes) \o "m"

\* days_remaining answering None for a completed task, as get_time_remaining does
days_remaining_of_open_task(t, today) ==
    IF t.due_date = NULL \/ is_completed(t) THEN NoDays
    ELSE <<t.due_date - today>>

\* Task.days_remaining, with the date.today() it reads
days_remaining(t, today) ==
    IF t.due_date = NULL THEN NoDays
    ELSE <<t.due_date - today>>

\* The three SerializerMethodFields of TaskSerializer
computed_fields(t, clock) ==
    [time_remaining |-> get_time_remaining(t, clock),
     is_overdue |-> overdue_on(t, today_of(clock), time_of(clock), time(23, 59, 59)),
     days_remaining |-> days_remaining(t, today_of(clock))]

\* Times of day of the clock and of a deadline
ShownTimes ==
    {time(0, 0, 0), time(0, 10, 0), time(0, 30, 0), time(1, 30, 0)}
ShownClocks ==
    {d * SecondsPerDay + tm :
        d \in Dates, tm \in ShownTimes \cup {time(1, 40, 0), time(23, 59, 0), time(23, 59, 59)}}

\* The rows one task can be stored as at the clock value clock: created on
\* day 0 and completed at once or not at all; 'overdue' is stored only for
\* an open task whose deadline has passed, and 'pending' may be stale.
ShownRows(clock) ==
    {r \in [user : {Owner}, title : {"a"}, description : {NoText},
            priority : {PRIORITY_MEDIUM},
            status : {STATUS_PENDING, STATUS_COMPLETED, STATUS_OVERDUE},
            completed_at : {NULL, 0},
            due_date : {NULL} \cup Dates, due_time : {NULL} \cup ShownTimes] :
        /\ r.status = STATUS_COMPLETED <=> r.completed_at # NULL
        /\ r.due_date = NULL => r.due_time = NULL
        /\ r.status = STATUS_OVERDUE =>
              /\ r.due_date # NULL
              /\ clock > r.due_date * SecondsPerDay
                           + (IF r.due_time # NULL THEN r.due_time ELSE time(23, 59, 59))}

InitShown ==
    /\ now \in ShownClocks
    /\ tasks \in {(1 :> r) : r \in ShownRows(now)}
    /\ nextId = 2
    /\ rq = NoRequest
    /\ loaded = << >>

\* GET /api/tasks/{pk}/ with the computed fields of the representation
ApiRetrieveFields(u, pk) ==
    /\ Idle
    /\ UNCHANGED loaded
    /\ found(u, pk)
    /\ rq' = [op |-> "api_retrieve", user |-> u, pk |-> pk, data |-> NoData,
              completed |-> Omitted, code |-> "ok", out |-> {pk}, stats |-> NoStats,
              fields |-> computed_fields(tasks[pk], now)]
    /\ UNCHANGED <<tasks, nextId, now>>

NextShown ==
    \/ Reply
    \/ ApiRetrieveFields(Owner, 1)

SpecShown == InitShown /\ [][NextShown]_vars

(* ------- SpecLWW: requests on one task that overlap in time ----------- *)
(* update_task, TaskViewSet.partial_update, TaskViewSet.complete and      *)
(* toggle_task load the task (get_object_or_404 / get_object) and save    *)
(* the loaded instance later; nothing locks the row in between.  A        *)
(* request is one step at its load and one step for the rest of the       *)
(* handler (validation, the change of the instance, Task.save()).  The    *)
(* task exists before the requests start and is not deleted.              *)

\* Requests that are started.
MaxRequests == 2

\* The bodies of the requests: a form that keeps or sets the deadline, a
\* PATCH of the title, a completion with true and with false, a toggle.
LwwForms == {Payload([title |-> "b", description |-> "d", priority |-> PRIORITY_CRITICAL], d) :
                d \in IsoDues}
LwwPatch ==
    [title |-> "b", description |-> Omitted, priority |-> ABSENT,
     due_date |-> ABSENT, due_time |-> ABSENT]
LwwRequests ==
    {[op |-> "web_update", data |-> d, completed |-> Omitted] : d \in LwwForms}
    \cup {[op |-> "api_update", data |-> LwwPatch, completed |-> Omitted]}
    \cup {[op |-> "api_complete", data |-> NoData, completed |-> c] : c \in {"true", "false"}}
    \cup {[op |-> "web_toggle", data |-> NoData, completed |-> Omitted]}

\* A save that leaves the completion columns of the stored row alone
write_row_keeping_completion(stored, instance) ==
    [instance EXCEPT !.completed_at = stored.completed_at, !.status = stored.status]

\* Model.save() of an instance with a primary key: every column of the
\* stored row is overwritten with the instance's value
write_row(stored, instance) == instance

\* TRUE when the rest of the handler reaches Task.save() on its instance
handler_saves(r, clock) ==
    IF r.op = "web_update" THEN form_is_valid(r.data, clock)
    ELSE IF r.op = "api_update"
    THEN serializer_is_valid(r.data, TRUE, clock) /\ serializer_update_allowed(r.instance)
    ELSE IF r.op = "api_complete"
    THEN r.completed = "false" \/ r.instance.completed_at = NULL
    ELSE r.instance.status = STATUS_COMPLETED \/ r.instance.completed_at = NULL

\* The instance as the handler saves it
handler_row(r, clock) ==
    IF r.op \in {"web_update", "api_update"} THEN save(set_fields(r.instance, r.data), clock)
    ELSE IF r.op = "api_complete"
    THEN IF r.completed = "true" THEN mark_as_completed(r.instance, clock)
         ELSE mark_as_incomplete(r.instance, clock)
    ELSE IF r.instance.status = STATUS_COMPLETED THEN mark_as_incomplete(r.instance, clock)
         ELSE mark_as_completed(r.instance, clock)

\* The requests that have saved, and the one that saved last
Saved == {k \in DOMAIN loaded : loaded[k].phase = "saved"}
LastSaved == CHOOSE k \in Saved : \A j \in Saved : loaded[j].order <= loaded[k].order

\* One task of the owner, created at the start of day 0 and left open or
\* completed at once, at any later time
InitLWW ==
    /\ tasks \in {(1 :> save(new_task(Owner, d), 0)) : d \in IsoData}
                 \cup {(1 :> mark_as_completed(save(new_task(Owner, d), 0), 0)) : d \in IsoData}
    /\ nextId = 2
    /\ now \in 0..MaxTime
    /\ rq = NoRequest
    /\ loaded = << >>

\* The handler of request r loads the task
Load(u, pk, r) ==
    /\ Len(loaded) < MaxRequests
    /\ found(u, pk)
    /\ loaded' = Append(loaded, [op |-> r.op, pk |-> pk, data |-> r.data,
                                 completed |-> r.completed, instance |-> tasks[pk],
                                 phase |-> "loaded", order |-> 0])
    /\ UNCHANGED <<tasks, nextId, now, rq>>

\* The handler of the k-th request runs from its load to its response
Finish(k) ==
    /\ k \in DOMAIN loaded
    /\ loaded[k].phase = "loaded"
    /\ IF handler_saves(loaded[k], now)
       THEN /\ tasks' = [tasks EXCEPT ![loaded[k].pk] =
                            write_row(@, handler_row(loaded[k], now))]
            /\ loaded' = [loaded EXCEPT ![k].phase = "saved",
                                        ![k].instance = handler_row(loaded[k], now),
                                        ![k].order = Cardinality(Saved) + 1]
       ELSE /\ loaded' = [loaded EXCEPT ![k].phase = "ended"]
            /\ UNCHANGED tasks
    /\ UNCHANGED <<nextId, now, rq>>

NextLWW ==
    \/ Tick
    \/ \E r \in LwwRequests : Load(Owner, 1, r)
    \/ \E k \in 1..MaxRequests : Finish(k)

SpecLWW == InitLWW /\ [][NextLWW]_vars

(* ---------------------------------------------------------------------- *)
(* The specification's reference derivation (spec.md 4.1), which the      *)
(* claims compare the persisted status with.                              *)

derive_status(due_date, due_time, completed_at, clock) ==
    IF completed_at # NULL THEN STATUS_COMPLETED
    ELSE IF due_date = NULL THEN STATUS_PENDING
    ELSE IF clock > Deadline(due_date, due_time) THEN STATUS_OVERDUE
    ELSE STATUS_PENDING

derived(t, clock) == derive_status(t.due_date, t.due_time, t.completed_at, clock)

CreateOps == {"api_create", "web_create"}
EditOps == {"api_update", "web_update"}
WriteOps == CreateOps \cup EditOps

\* The editable fields of a row
Editable(t) == <<t.title, t.description, t.priority, t.due_date, t.due_time>>

\* The step handles a request with one of the operations ops
Handles(ops) == Idle /\ rq'.op \in ops

\* The step is a request on the row pk, which its user owns
OnOwnRow(ops) == Handles(ops) /\ found(rq'.user, rq'.pk)

(* ------------------------------- C1 ----------------------------------- *)

\* C1: every persisted task has status 'completed' exactly when its
\* completed_at is set, in every state any sequence of requests reaches.
C1_StatusCompletedIffCompletedAt ==
    \A i \in DOMAIN tasks :
        (tasks[i].status = STATUS_COMPLETED) <=> (tasks[i].completed_at # NULL)

\* A web form edit has just been saved on a task that is completed.
C1_Witness ==
    /\ rq.op = "web_update" /\ rq.code = "ok"
    /\ tasks[rq.pk].completed_at # NULL
    /\ tasks[rq.pk].status = STATUS_COMPLETED

(* ------------------------------- C2 ----------------------------------- *)

\* The step reopens a completed task: set_completed(false) through the API,
\* or the web toggle, on a row whose completed_at is set.
Reopens ==
    /\ \/ OnOwnRow({"api_complete"}) /\ rq'.completed = "false"
       \/ OnOwnRow({"web_toggle"})
    /\ tasks[rq'.pk].completed_at # NULL

\* C2: reopening a completed task clears completed_at and persists the status
\* derive_status gives for its due fields at that time: 'overdue' when the
\* deadline has passed, 'pending' otherwise, never 'completed'.
C2_ReopenRestoresDerivedStatus ==
    [][Reopens =>
        /\ tasks'[rq'.pk].completed_at = NULL
        /\ tasks'[rq'.pk].status = derived(tasks'[rq'.pk], now')
        /\ tasks'[rq'.pk].status # STATUS_COMPLETED]_vars

(* ------------------------------- C3 ----------------------------------- *)

\* C3: no field edit, through the API or the web form, changes an editable
\* field of a task whose completed_at is set.
C3_CompletedTaskImmutable ==
    [][\A i \in DOMAIN tasks :
        (Handles(EditOps) /\ tasks[i].completed_at # NULL) =>
            (i \in DOMAIN tasks' /\ Editable(tasks'[i]) = Editable(tasks[i]))]_vars

(* ------------------------------- C4 ----------------------------------- *)

\* C4: in every reachable state a task with a due date that is not completed
\* has persisted status 'overdue' exactly when the clock is past its deadline.
C4_PersistedOverdueFollowsClock ==
    \A i \in DOMAIN tasks :
        (tasks[i].due_date # NULL /\ tasks[i].completed_at = NULL) =>
            ((tasks[i].status = STATUS_OVERDUE) <=>
                (now > Deadline(tasks[i].due_date, tasks[i].due_time)))

(* ------------------------------- C5 ----------------------------------- *)

\* C5: right after a successful create or field edit the persisted status is
\* derive_status of the row's new field values at the time of the write.
C5_WriteDerivesStatus ==
    (rq.op \in WriteOps /\ rq.code = "ok") =>
        tasks[rq.pk].status = derived(tasks[rq.pk], now)

\* An API edit has just been saved and left the task 'overdue'.
C5_Witness ==
    /\ rq.op = "api_update" /\ rq.code = "ok"
    /\ tasks[rq.pk].status = STATUS_OVERDUE
    /\ derived(tasks[rq.pk], now) = STATUS_OVERDUE

(* ------------------------------- C6 ----------------------------------- *)

\* C6: set_completed(true) on a task that is already completed changes
\* nothing: completed_at keeps the first completion's timestamp and the
\* status stays 'completed', however far the clock has advanced.
C6_CompleteIsIdempotent ==
    [][(OnOwnRow({"api_complete"}) /\ rq'.completed = "true"
            /\ tasks[rq'.pk].completed_at # NULL) =>
        /\ tasks' = tasks
        /\ tasks'[rq'.pk].status = STATUS_COMPLETED]_vars

\* set_completed(true) has just been answered for a task completed earlier.
C6_Witness ==
    /\ rq.op = "api_complete" /\ rq.completed = "true" /\ rq.code = "ok"
    /\ tasks[rq.pk].completed_at # NULL
    /\ tasks[rq.pk].completed_at < now

(* ------------------------------- C7 ----------------------------------- *)

\* The request body is one both validators accept at the current time.
ValidEdit(data) ==
    /\ data.title \notin {"", Omitted}
    /\ data.due_date \in {NULL, ABSENT} \/ data.due_date >= Day(now)

\* C7: an update of a task whose status is 'completed' is rejected with an
\* error and leaves the row as it was; an update of a task that is not
\* completed (reopened, say) is accepted and applied.
C7_UpdateOfCompletedRejected ==
    [][OnOwnRow(EditOps) =>
        IF tasks[rq'.pk].status = STATUS_COMPLETED
        THEN rq'.code \notin {"ok"} /\ tasks' = tasks
        ELSE ValidEdit(rq'.data) =>
                /\ rq'.code = "ok"
                /\ tasks'[rq'.pk] = save(set_fields(tasks[rq'.pk], rq'.data), now)]_vars

(* ------------------------------- C8 ----------------------------------- *)

DetailOps ==
    {"api_retrieve", "api_update", "api_destroy", "api_complete",
     "web_update", "web_delete", "web_toggle"}

StatsOps == {"api_dashboard", "web_dashboard"}

Statuses == {STATUS_PENDING, STATUS_COMPLETED, STATUS_OVERDUE}

\* The rows of user u with a status among sts
RowsOf(u, sts) == {i \in DOMAIN tasks : tasks[i].user = u /\ tasks[i].status \in sts}

\* The rows of user u before or after the step
OwnedBy(u) ==
    {i \in DOMAIN tasks : tasks[i].user = u} \cup
    {i \in DOMAIN tasks' : tasks'[i].user = u}

\* C8: a request of user u changes, removes and creates only rows owned by
\* u, shows and counts only rows owned by u, and when it names a row of
\* another user it gets the very response it gets for a primary key that
\* does not exist ('not found', nothing shown), with the table unchanged.
C8_OwnershipIsolation ==
    [][(Idle /\ rq'.op # "none") =>
        LET u == rq'.user IN
        /\ \A i \in DOMAIN tasks :
              tasks[i].user # u => (i \in DOMAIN tasks' /\ tasks'[i] = tasks[i])
        /\ \A i \in DOMAIN tasks' \ DOMAIN tasks : tasks'[i].user = u
        /\ rq'.out \subseteq OwnedBy(u)
        /\ rq'.op \in StatsOps =>
              /\ rq'.stats.total_tasks = Cardinality(RowsOf(u, Statuses))
              /\ rq'.stats.completed_tasks = Cardinality(RowsOf(u, {STATUS_COMPLETED}))
              /\ rq'.stats.pending_tasks = Cardinality(RowsOf(u, {STATUS_PENDING}))
              /\ rq'.stats.overdue_tasks = Cardinality(RowsOf(u, {STATUS_OVERDUE}))
        /\ (rq'.op \in DetailOps /\ ~(rq'.pk \in DOMAIN tasks /\ tasks[rq'.pk].user = u)) =>
              /\ rq'.code = "not_found"
              /\ rq'.out = {}
              /\ tasks' = tasks]_vars

\* bob has just asked to edit alice's task, which exists beside a task of
\* his own with the same title, and got 'not found'.
C8_Witness ==
    /\ rq.op = "api_update" /\ rq.user = "bob" /\ rq.code = "not_found"
    /\ rq.pk \in DOMAIN tasks
    /\ tasks[rq.pk].user = "alice"
    /\ \E j \in DOMAIN tasks : tasks[j].user = "bob" /\ tasks[j].title = tasks[rq.pk].title

(* ------------------------------- C9 ----------------------------------- *)

\* C9: a create whose due_date is before the current date is rejected with a
\* validation error on both create entry points and stores nothing; with a
\* due_date of today or later (and a title) it is accepted and stored.
C9_PastDueDateCreateRejected ==
    [][Handles(CreateOps) =>
        LET d == rq'.data.due_date IN
        /\ (d \notin {NULL, ABSENT} /\ d < Day(now)) =>
              (rq'.code = "validation_error" /\ tasks' = tasks /\ nextId' = nextId)
        /\ (d \notin {NULL, ABSENT} /\ d >= Day(now)
                /\ rq'.data.title \notin {"", Omitted}) =>
              /\ rq'.code = "ok"
              /\ DOMAIN tasks' = DOMAIN tasks \cup {nextId}
              /\ tasks'[nextId].due_date = d]_vars

\* The web form has just rejected a create that names yesterday.
C9_Witness ==
    /\ rq.op = "web_create" /\ rq.code = "validation_error"
    /\ rq.data.title = "a"
    /\ rq.data.due_date # NULL /\ rq.data.due_date < Day(now)
    /\ DOMAIN tasks = {}

(* ------------------------------- C10 ---------------------------------- *)

\* C10: an edit of a task that is not completed and whose due_date is before
\* today, resubmitting that same due_date with a title, is accepted.
C10_UnchangedPastDueDateAccepted ==
    [][(OnOwnRow(EditOps)
            /\ tasks[rq'.pk].completed_at = NULL
            /\ tasks[rq'.pk].due_date # NULL
            /\ tasks[rq'.pk].due_date < Day(now)
            /\ rq'.data.due_date = tasks[rq'.pk].due_date
            /\ rq'.data.title \notin {"", Omitted}) =>
        rq'.code = "ok"]_vars

(* ------------------------------- C11 ---------------------------------- *)

\* C11: for every persisted task and every clock value, is_overdue is true
\* exactly when derive_status of the task's fields is 'overdue': the
\* date-then-time-of-day comparison agrees with now > deadline for a task
\* with a due date that is not completed, and is false otherwise.
C11_IsOverdueAgreesWithDeriveStatus ==
    \A i \in DOMAIN tasks : \A clock \in 0..MaxTime :
        /\ is_overdue(tasks[i], clock) <=> (derived(tasks[i], clock) = STATUS_OVERDUE)
        /\ (tasks[i].due_date = NULL \/ tasks[i].completed_at # NULL)
              => ~is_overdue(tasks[i], clock)
        /\ (tasks[i].due_date # NULL /\ tasks[i].completed_at = NULL)
              => (is_overdue(tasks[i], clock)
                    <=> clock > Deadline(tasks[i].due_date, tasks[i].due_time))

\* A stored task is due today with a time of day that has passed, so that
\* only the time-of-day comparison makes it overdue, and one instant
\* earlier it was not.
C11_Witness ==
    \E i \in DOMAIN tasks :
        /\ tasks[i].completed_at = NULL
        /\ tasks[i].due_date = Day(now)
        /\ tasks[i].due_time # NULL
        /\ now = Deadline(tasks[i].due_date, tasks[i].due_time) + 1
        /\ is_overdue(tasks[i], now)
        /\ ~is_overdue(tasks[i], now - 1)

(* ------------------------------- C12 ---------------------------------- *)

\* The deadline of a row and the clock, in seconds
SecondsLeft(t, clock) ==
    (t.due_date * SecondsPerDay
        + (IF t.due_time # NULL THEN t.due_time ELSE 23 * 3600 + 59 * 60 + 59)) - clock

\* The text the claim gives for d whole days, h leftover hours, m leftover minutes
Remaining(d, h, m) ==
    IF d >= 1 THEN ToString(d) \o "d " \o ToString(h) \o "h"
    ELSE IF h >= 1 THEN ToString(h) \o "h " \o ToString(m) \o "m"
    ELSE ToString(m) \o "m"

FieldsShown == rq.op = "api_retrieve" /\ rq.code = "ok"

\* C12: the time_remaining shown for a task is null when the task has no
\* due date or is completed; otherwise, with D = deadline - now, it is
\* "OVERDUE" when D < 0, and when D = d days + h hours + m minutes + s
\* seconds (h < 24, m < 60, s < 60) it is "{d}d {h}h" if d >= 1, else
\* "{h}h {m}m" if h >= 1, else "{m}m".  90 minutes give "1h 30m", 25 hours
\* give "1d 1h", and a deadline 10 minutes ago gives "OVERDUE".
C12_TimeRemainingFormat ==
    FieldsShown =>
        LET t == tasks[rq.pk]
            shown == rq.fields.time_remaining
            D == SecondsLeft(t, now)
        IN  IF t.due_date = NULL \/ t.completed_at # NULL THEN shown = None
            ELSE /\ D < 0 => shown = "OVERDUE"
                 /\ D >= 0 =>
                      \E d \in 0..(MaxDay + 1), h \in 0..23, m \in 0..59 :
                          /\ D - (d * 86400 + h * 3600 + m * 60) \in 0..59
                          /\ shown = Remaining(d, h, m)
                 /\ D = 90 * 60 => shown = "1h 30m"
                 /\ D = 25 * 3600 => shown = "1d 1h"
                 /\ D = -(10 * 60) => shown = "OVERDUE"

\* A task due in exactly 90 minutes is shown with "1h 30m".
C12_Witness ==
    /\ FieldsShown
    /\ tasks[rq.pk].due_date # NULL
    /\ tasks[rq.pk].completed_at = NULL
    /\ SecondsLeft(tasks[rq.pk], now) = 90 * 60
    /\ rq.fields.time_remaining = "1h 30m"

\* Further cases of C12 that the specification reaches
C12_Case25Hours ==
    FieldsShown /\ tasks[rq.pk].completed_at = NULL /\ tasks[rq.pk].due_date # NULL
        /\ SecondsLeft(tasks[rq.pk], now) = 25 * 3600
C12_Case10MinutesAgo ==
    FieldsShown /\ tasks[rq.pk].completed_at = NULL /\ tasks[rq.pk].due_date # NULL
        /\ SecondsLeft(tasks[rq.pk], now) = -(10 * 60)
C12_CaseMinutesOnly ==
    FieldsShown /\ rq.fields.time_remaining = "30m"
C12_CaseDefaultDeadline ==
    FieldsShown /\ tasks[rq.pk].due_date # NULL /\ tasks[rq.pk].due_time = NULL
        /\ rq.fields.time_remaining = "23h 59m"
C12_CaseCompleted ==
    FieldsShown /\ tasks[rq.pk].due_date # NULL /\ tasks[rq.pk].completed_at # NULL
        /\ rq.fields.time_remaining = None

(* ------------------------------- C13 ---------------------------------- *)

\* C13: the days_remaining shown for a task is null when the task has no
\* due date; otherwise it is the number of days from today to the due
\* date (today + days_remaining = due_date, negative once the date has
\* passed), whatever the due_time and whether or not the task is
\* completed: a completed task with a due date is shown with a number of
\* days, with a null time_remaining and with is_overdue false.
C13_DaysRemaining ==
    FieldsShown =>
        LET t == tasks[rq.pk]
            shown == rq.fields.days_remaining
        IN  /\ t.due_date = NULL <=> shown = NoDays
            /\ t.due_date # NULL =>
                  /\ Len(shown) = 1
                  /\ today_of(now) + shown[1] = t.due_date
                  /\ shown[1] < 0 <=> t.due_date < today_of(now)
            /\ \A due_time \in {NULL} \cup ShownTimes :
               \A r \in {[t EXCEPT !.due_time = due_time],
                         [t EXCEPT !.due_time = due_time, !.status = STATUS_COMPLETED,
                                   !.completed_at = now],
                         [t EXCEPT !.due_time = due_time, !.status = STATUS_PENDING,
                                   !.completed_at = NULL]} :
                   computed_fields(r, now).days_remaining = shown
            /\ (t.due_date # NULL /\ t.completed_at # NULL) =>
                  /\ shown # NoDays
                  /\ rq.fields.time_remaining = None
                  /\ rq.fields.is_overdue = FALSE

\* A completed task whose due date has passed is shown with a negative
\* number of days, no time_remaining and is_overdue false.
C13_Witness ==
    /\ FieldsShown
    /\ tasks[rq.pk].completed_at # NULL
    /\ tasks[rq.pk].due_date # NULL
    /\ tasks[rq.pk].due_date < today_of(now)
    /\ rq.fields.days_remaining = <<-1>>
    /\ rq.fields.time_remaining = None
    /\ ~rq.fields.is_overdue

(* ------------------------------- C14 ---------------------------------- *)

\* The request of this step is the completion toggle on row i, asked to
\* complete (completed = true, or the web toggle of a row not completed) or
\* asked to reopen (completed = false, or the web toggle of a completed row).
TogglesTo(i, completed) ==
    /\ Idle
    /\ rq'.pk = i
    /\ rq'.user = tasks[i].user
    /\ \/ rq'.op = "api_complete" /\ rq'.completed = (IF completed THEN "true" ELSE "false")
       \/ rq'.op = "web_toggle" /\ (tasks[i].status = STATUS_COMPLETED) = ~completed

\* No step but the completion toggle changes whether a stored task is completed.
ToggleOnlyChangesCompleted ==
    /\ \A i \in DOMAIN tasks \cap DOMAIN tasks' :
          /\ (tasks[i].status # STATUS_COMPLETED /\ tasks'[i].status = STATUS_COMPLETED)
                => TogglesTo(i, TRUE)
          /\ (tasks[i].status = STATUS_COMPLETED /\ tasks'[i].status # STATUS_COMPLETED)
                => TogglesTo(i, FALSE)
    /\ \A i \in DOMAIN tasks' \ DOMAIN tasks : tasks'[i].status # STATUS_COMPLETED

\* The owner of a completed task can reopen it, by either toggle.
OwnerCanReopen ==
    \A i \in DOMAIN tasks :
        (Idle /\ tasks[i].status = STATUS_COMPLETED) =>
            /\ ENABLED (ApiComplete(tasks[i].user, i, "false")
                          /\ tasks'[i].status # STATUS_COMPLETED)
            /\ ENABLED (WebToggle(tasks[i].user, i)
                          /\ tasks'[i].status # STATUS_COMPLETED)

OwnColumns(r, row, clock) ==
    /\ row.user = r.instance.user
    /\ Editable(row) = Editable(set_fields(r.instance, r.data))
    /\ IF r.op \in EditOps THEN row.completed_at = r.instance.completed_at
       ELSE IF r.op = "api_complete" /\ r.completed = "true" THEN row.completed_at = clock
       ELSE IF r.op = "api_complete" THEN row.completed_at = NULL
       ELSE row.completed_at = (IF r.instance.completed_at = NULL THEN clock ELSE NULL)

\* Every step that saves stores the row of the request that saves, whatever
\* another request has stored since this request loaded its copy.
SaveWritesOwnRow ==
    \A k \in DOMAIN loaded :
        (loaded[k].phase = "loaded" /\ loaded'[k].phase = "saved") =>
            /\ OwnColumns(loaded[k], tasks'[loaded[k].pk], now)
            /\ tasks'[loaded[k].pk] = loaded'[k].instance

\* The stored row is the row of the request that saved last, and its status
\* is 'completed' exactly when its completed_at is set.
LastSaveWins ==
    /\ Saved # {} => tasks[loaded[LastSaved].pk] = loaded[LastSaved].instance
    /\ \A i \in DOMAIN tasks :
          tasks[i].status = STATUS_COMPLETED <=> tasks[i].completed_at # NULL

\* C15: requests of the owner on one task that overlap are last-write-wins,
\* with no locking: each loads the task and saves later, and in every
\* interleaving each save stores the full row of its own request, built
\* from the copy that request loaded, so that after the saves the stored
\* row is the row of the later save and an earlier request's change is
\* overwritten; the stored row always has status = 'completed' exactly
\* when completed_at is set.
C15_LastWriteWins ==
    [][SaveWritesOwnRow]_vars /\ []LastSaveWins

\* Two requests loaded the task while it was open; one completed it and
\* saved, then the other saved its edit: the stored row is the edit's row
\* and is not completed.
C15_Witness ==
    \E a, b \in DOMAIN loaded :
        /\ loaded[a].op = "api_complete" /\ loaded[a].completed = "true"
        /\ loaded[a].phase = "saved" /\ loaded[a].order = 1
        /\ loaded[a].instance.completed_at # NULL
        /\ loaded[b].op = "web_update"
        /\ loaded[b].phase = "saved" /\ loaded[b].order = 2
        /\ tasks[1] = loaded[b].instance
        /\ tasks[1].title = "b"
        /\ tasks[1].completed_at = NULL
        /\ tasks[1].status # STATUS_COMPLETED

\* The converse overwrite: a reopen saved first is undone by the later save
\* of an edit that loaded the task while it was completed.
C15_ReopenOverwritten ==
    \E a, b \in DOMAIN loaded :
        /\ loaded[a].op = "api_complete" /\ loaded[a].completed = "false"
        /\ loaded[a].phase = "saved" /\ loaded[a].order = 1
        /\ loaded[b].op = "web_update"
        /\ loaded[b].phase = "saved" /\ loaded[b].order = 2
        /\ tasks[1].completed_at # NULL

(* ------------------------------- C16 ---------------------------------- *)

\* C16: in every reachable state every stored task has exactly one of the
\* statuses pending, completed and overdue, and for every user the stats
\* count only that user's tasks (the totals of the users add up to the
\* table, a user's total is the number of rows the user owns) with
\* total_tasks = completed_tasks + pending_tasks + overdue_tasks; the stats
\* a dashboard response shows are these.
C16_StatsPartition ==
    /\ \A i \in DOMAIN tasks : tasks[i].status \in Statuses
    /\ \A u \in Users :
          LET stats == dashboard_stats(u) IN
          /\ stats.total_tasks = Cardinality({i \in DOMAIN tasks : tasks[i].user = u})
          /\ stats.total_tasks
                = stats.completed_tasks + stats.pending_tasks + stats.overdue_tasks
    /\ dashboard_stats("alice").total_tasks + dashboard_stats("bob").total_tasks
          = Cardinality(DOMAIN tasks)
    /\ rq.op \in StatsOps =>
          /\ rq.stats = dashboard_stats(rq.user)
          /\ rq.stats.total_tasks
                = rq.stats.completed_tasks + rq.stats.pending_tasks + rq.stats.overdue_tasks

\* A dashboard shows one task, overdue, to a user whose overdue task is
\* stored beside a completed task of the other user.
C16_Witness ==
    /\ rq.op \in StatsOps
    /\ rq.stats.total_tasks = 1
    /\ rq.stats.overdue_tasks = 1
    /\ rq.stats.completed_tasks = 0
    /\ \E j \in DOMAIN tasks :
          tasks[j].user # rq.user /\ tasks[j].status = STATUS_COMPLETED

====
